---- MODULE Spec2Model ----
(***************************************************************************)
(* Request orchestration core of the Climate Risk Wizard:                  *)
(* src/lib/api/orchestrator.ts (dataset registry, fingerprint, result      *)
(* cache, getUnifiedDashboard).                                            *)
(*                                                                         *)
(* Strings are sequences of UTF-16 code units, so that join, sort and      *)
(* hash are computed as the JavaScript code computes them.  An absent      *)
(* (undefined) string field is the empty sequence: both are falsy for      *)
(* `!x` / `x || d`, and Array.prototype.join renders both as "".           *)
(***************************************************************************)
EXTENDS Integers, Sequences, FiniteSets, TLC

\* ------------------------------------------------------------------------
\* Bounds of the model
\* ------------------------------------------------------------------------
MaxHazards == 2
MaxTicks == 2
MaxCalls == 2
MaxMutations == 2
MaxResolves == 2

\* ------------------------------------------------------------------------
\* State
\* ------------------------------------------------------------------------
VARIABLES
  snapshot,  \* a WizardState snapshot handed to generateCacheKey
  variant,   \* a second snapshot, derived from the first
  rel,       \* how `variant` was derived from `snapshot`
  fp,        \* generateCacheKey(snapshot)
  fpOther,   \* generateCacheKey(variant)
  now,       \* Date.now()
  ticks,     \* number of clock advances so far
  cache,     \* cacheLayer.cache
  lastOp,    \* the CacheLayer call made at the current instant, if any
  history,   \* per key, the last set() since the last clear()
  mode,      \* getAPIConfig().mode
  calls,     \* the getUnifiedDashboard calls, by call number
  writer,    \* per key, the call that wrote the entry last
  doc,       \* a value handed to validateDashboard
  verdict,   \* what validateDashboard returned for `doc`
  broken,    \* the paths of the fields of `doc` that were put outside their rule
  mutations, \* number of changes made to `doc`
  currentStep,          \* WizardFlow: useState(1)
  wizardState,          \* WizardFlow: the wizard inputs
  dashboardData,        \* WizardFlow: the dashboard held, or null
  isLoadingDashboard,   \* WizardFlow: a handleNext fetch is in flight
  dashboardError,       \* WizardFlow: the error message shown, or null
  dashboardRequestKey,  \* WizardFlow: the key recorded with dashboardData
  flight,    \* the handleNext that awaits getUnifiedDashboard, if any
  resolves,  \* the handleResolve calls that await resolveLocation
  started,   \* number of handleResolve calls started so far
  wizOp      \* the last thing that happened in the wizard

keyVars == <<snapshot, variant, rel, fp, fpOther>>
clockVars == <<now, ticks>>
cacheVars == <<cache, lastOp, history>>
orchVars == <<mode, calls, writer>>
valVars == <<doc, verdict, broken, mutations>>
wizVars == <<currentStep, wizardState, dashboardData, isLoadingDashboard,
             dashboardError, dashboardRequestKey, flight, resolves, started, wizOp>>
vars == <<keyVars, clockVars, cacheVars, orchVars, valVars, wizVars>>

\* ------------------------------------------------------------------------
\* Code units
\* ------------------------------------------------------------------------
Comma == 44
Colon == 58

\* sample text: "a", "b", "a,b", "a:" and ":a"
STR_a == <<97>>
STR_b == <<98>>
STR_a_comma_b == <<97, 44, 98>>
STR_a_colon == <<97, 58>>
STR_colon_a == <<58, 97>>

STR_wizard == <<119, 105, 122, 97, 114, 100>>
STR_approximate == <<97, 112, 112, 114, 111, 120, 105, 109, 97, 116, 101>>
STR_exact == <<101, 120, 97, 99, 116>>

Absent == <<>>

\* ------------------------------------------------------------------------
\* String helpers of the JavaScript runtime
\* ------------------------------------------------------------------------
Min(a, b) == IF a <= b THEN a ELSE b

RECURSIVE FirstDiff(_, _, _)
FirstDiff(s, t, i) ==
  IF i > Min(Len(s), Len(t)) THEN 0
  ELSE IF s[i] # t[i] THEN i
  ELSE FirstDiff(s, t, i + 1)

\* s < t in code-unit order, the default comparison of Array.prototype.sort
StrLess(s, t) ==
  LET d == FirstDiff(s, t, 1)
  IN  IF d = 0 THEN Len(s) < Len(t) ELSE s[d] < t[d]

RECURSIVE InsertSorted(_, _)
InsertSorted(x, sorted) ==
  IF sorted = <<>> THEN <<x>>
  ELSE IF StrLess(x, Head(sorted)) THEN <<x>> \o sorted
  ELSE <<Head(sorted)>> \o InsertSorted(x, Tail(sorted))

RECURSIVE SortStrings(_)
SortStrings(list) ==
  IF list = <<>> THEN <<>>
  ELSE InsertSorted(Head(list), SortStrings(Tail(list)))

\* the copy is joined in selection order
SortedHazards_unsorted(list) == list

\* [...inputs.selected_hazards].sort()
SortedHazards(list) == SortStrings(list)

RECURSIVE Join(_, _)
Join(list, sep) ==
  IF list = <<>> THEN <<>>
  ELSE IF Len(list) = 1 THEN list[1]
  ELSE list[1] \o sep \o Join(Tail(list), sep)

\* x || d
OrDefault(x, d) == IF x = Absent THEN d ELSE x

\* ------------------------------------------------------------------------
\* Dataset registry
\* ------------------------------------------------------------------------
\* DatasetRegistry.versions: key/value pairs in insertion order
versions ==
  << << <<98, 97, 115, 101, 108, 105, 110, 101>>,
        <<67, 77, 73, 80, 54, 45, 118, 49, 46, 50>> >>,
     << <<114, 101, 97, 110, 97, 108, 121, 115, 105, 115>>,
        <<118, 53, 46, 49>> >>,
     << <<101, 120, 112, 111, 115, 117, 114, 101>>,
        <<103, 97, 112, 45, 117, 119, 45, 118, 50, 46, 49>> >>,
     << <<99, 111, 110, 110, 101, 99, 116, 105, 118, 105, 116, 121>>,
        <<99, 111, 109, 109, 117, 116, 105, 110, 103, 45, 99, 101, 110,
          115, 117, 115, 45, 50, 48, 50, 48>> >>,
     << <<111, 98, 115, 101, 114, 118, 97, 116, 105, 111, 110, 115>>,
        <<110, 111, 97, 97, 45, 110, 99, 101, 105, 45, 50, 48, 50, 52,
          46, 49, 48>> >> >>

Quote == 34
LBrace == 123
RBrace == 125

\* JSON.stringify of an object whose values are strings without characters
\* that need escaping
RECURSIVE JsonMembers(_)
JsonMembers(pairs) ==
  IF pairs = <<>> THEN <<>>
  ELSE LET p == Head(pairs)
           m == <<Quote>> \o p[1] \o <<Quote, Colon, Quote>> \o p[2] \o <<Quote>>
       IN  IF Len(pairs) = 1 THEN m
           ELSE m \o <<Comma>> \o JsonMembers(Tail(pairs))

JsonStringify(pairs) == <<LBrace>> \o JsonMembers(pairs) \o <<RBrace>>

\* One round of hashObject on a 32-bit value held as two 16-bit halves
\* <<hi, lo>>: hash = ((hash << 5) - hash) + char; hash = hash & hash
HashStep(h, char) ==
  LET lo == 31 * h[2] + char
      hi == 31 * h[1] + (lo \div 65536)
  IN  <<hi % 65536, lo % 65536>>

\* the loop over str[lo..hi], split in halves to keep the evaluation shallow;
\* the test on `left` makes the checker evaluate it before the right half
RECURSIVE HashFold(_, _, _, _)
HashFold(str, lo, hi, h) ==
  IF lo > hi THEN h
  ELSE IF lo = hi THEN HashStep(h, str[lo])
  ELSE LET mid == (lo + hi) \div 2
           left == HashFold(str, lo, mid, h)
       IN  IF left[1] >= 0 THEN HashFold(str, mid + 1, hi, left) ELSE left

\* Math.abs of the signed 32-bit value <<hi, lo>>
AbsInt32(h) ==
  IF h[1] < 32768 THEN h[1] * 65536 + h[2]
  ELSE (65535 - h[1]) * 65536 + (65536 - h[2])

Base36Digit(d) == IF d < 10 THEN 48 + d ELSE 87 + d

\* Number.prototype.toString(36)
RECURSIVE ToString36(_)
ToString36(n) ==
  IF n < 36 THEN <<Base36Digit(n)>>
  ELSE ToString36(n \div 36) \o <<Base36Digit(n % 36)>>

hashObject(obj) ==
  LET str == JsonStringify(obj)
  IN  ToString36(AbsInt32(HashFold(str, 1, Len(str), <<0, 0>>)))

DatasetRegistryHash == hashObject(versions)

\* ------------------------------------------------------------------------
\* Request fingerprint
\* ------------------------------------------------------------------------
\* the fingerprint with the clock mixed in
generateCacheKey_clock(inputs) ==
  LET hazardsKey == Join(SortedHazards(inputs.selected_hazards), <<Comma>>)
  IN  Join(<< STR_wizard,
              inputs.location_key,
              OrDefault(inputs.precision_level, STR_approximate),
              hazardsKey,
              inputs.selected_system,
              DatasetRegistryHash,
              ToString36(now) >>, <<Colon>>)

\* the fingerprint without the system of concern
generateCacheKey_noSystem(inputs) ==
  LET hazardsKey == Join(SortedHazards(inputs.selected_hazards), <<Comma>>)
  IN  Join(<< STR_wizard,
              inputs.location_key,
              OrDefault(inputs.precision_level, STR_approximate),
              hazardsKey,
              DatasetRegistryHash >>, <<Colon>>)

generateCacheKey(inputs) ==
  LET hazardsKey == Join(SortedHazards(inputs.selected_hazards), <<Comma>>)
      datasetVersionsHash == DatasetRegistryHash
  IN  Join(<< STR_wizard,
              inputs.location_key,
              OrDefault(inputs.precision_level, STR_approximate),
              hazardsKey,
              inputs.selected_system,
              datasetVersionsHash >>, <<Colon>>)

\* ------------------------------------------------------------------------
\* Cache layer: the store is a map from key to [value, expiresAt]
\* ------------------------------------------------------------------------
DefaultTTL == 3600000

\* artificial latencies of the mock sub-generators
LocationDelay == 300
BaselineDelay == 800
RiskDelay == 1000

\* config.timeout
ApiTimeout == 30000

Null == [null |-> TRUE]

\* get() that hands out an entry whatever its age
CacheGetValue_noExpiry(store, key, t) ==
  IF key \notin DOMAIN store THEN Null ELSE store[key].value

\* get() that treats an entry as expired from expiresAt on
CacheGetValue_expiresEarly(store, key, t) ==
  IF key \notin DOMAIN store THEN Null
  ELSE IF t >= store[key].expiresAt THEN Null
  ELSE store[key].value

\* what CacheLayer.get(key) returns at time t
CacheGetValue(store, key, t) ==
  IF key \notin DOMAIN store THEN Null
  ELSE IF t > store[key].expiresAt THEN Null
  ELSE store[key].value

\* get() that leaves an expired entry in the map
CacheGetStore_noDelete(store, key, t) == store

\* get() that deletes the entry it reads, expired or not
CacheGetStore_alwaysDeletes(store, key, t) ==
  [x \in DOMAIN store \ {key} |-> store[x]]

\* the map after CacheLayer.get(key) at time t
CacheGetStore(store, key, t) ==
  IF key \in DOMAIN store /\ t > store[key].expiresAt
  THEN [k \in DOMAIN store \ {key} |-> store[k]]
  ELSE store

\* set() that ignores its ttl
CacheSetStore_zeroTTL(store, key, value, ttl, t) ==
  [k \in DOMAIN store \cup {key} |->
     IF k = key THEN [value |-> value, expiresAt |-> t] ELSE store[k]]

\* set() that keeps the expiry of an entry it overwrites
CacheSetStore_keepsExpiry(store, key, value, ttl, t) ==
  [k \in DOMAIN store \cup {key} |->
     IF k = key
     THEN [value |-> value,
           expiresAt |-> IF key \in DOMAIN store
                         THEN store[key].expiresAt ELSE t + ttl]
     ELSE store[k]]

\* set() that makes room by dropping every other entry
CacheSetStore_singleEntry(store, key, value, ttl, t) ==
  [k \in {key} |-> [value |-> value, expiresAt |-> t + ttl]]

\* the map after CacheLayer.set(key, value, ttl) at time t
CacheSetStore(store, key, value, ttl, t) ==
  [k \in DOMAIN store \cup {key} |->
     IF k = key THEN [value |-> value, expiresAt |-> t + ttl] ELSE store[k]]

\* the map after CacheLayer.clear()
EmptyStore == [k \in {} |-> Null]

CacheClearStore(store) == EmptyStore

\* ------------------------------------------------------------------------
\* Dashboard payloads.  Numbers are in hundredths (0.85 is 85); free text
\* is a TLA+ string; text whose characters matter is a sequence of code
\* units.
\* ------------------------------------------------------------------------
Missing == [missing |-> TRUE]

\* the symbols of the contract
UNIT_degC == <<176, 67>>
ARROW_up == <<8593>>
ARROW_down == <<8595>>
ARROW_flat == <<8594>>

\* the string literals of the mock services, as stored in the source file
MOCK_unit == <<194, 176, 67>>
MOCK_up == <<226, 8224, 8216>>
MOCK_flat == <<226, 8224, 8217>>

STR_Heat == <<72, 101, 97, 116>>
STR_Health == <<72, 101, 97, 108, 116, 104>>

\* LocationService.getRegion
getRegion(location_key) ==
  [ location_key |-> location_key,
    normalized_address |-> "Manhattan, New York, NY",
    region_profile |->
      [ climate_regime |-> "Humid Subtropical",
        exposure_flags |-> <<"Coastal", "Urban Heat Island">> ] ]

\* ClimateService.getBaseline
getBaseline(w, unit) ==
  [ warming_estimate |-> IF w.precision_level = STR_exact THEN 140 ELSE 120,
    unit |-> unit,
    period_comparison |-> "vs 1850-1900 global baseline",
    confidence |->
      [ level |-> IF w.precision_level = STR_exact THEN "High" ELSE "Medium",
        reason |-> IF w.precision_level = STR_exact
                   THEN "Anchored to NOAA v5.1 modern reanalysis"
                   ELSE "ERA5 reanalysis with bias correction" ] ]

Node(id, type, label, severity, description, dir, magnitude, confidence, uncertainty) ==
  [ id |-> id, type |-> type, label |-> label, severity |-> severity,
    description |-> description,
    drift |-> [direction |-> dir, magnitude |-> magnitude, confidence |-> confidence],
    uncertainty |-> uncertainty ]

\* RiskService.getChain
getChain(w, up, flat) ==
  LET hazardLabel == IF Len(w.selected_hazards) > 0 /\ w.selected_hazards[1] # Absent
                     THEN w.selected_hazards[1] ELSE STR_Heat
      systemLabel == OrDefault(w.selected_system, STR_Health)
  IN  [ hazard |-> hazardLabel,
        system |-> systemLabel,
        nodes |->
          << Node("node_1", "Risk", <<"Extreme", hazardLabel, "Event">>, 85,
                  "Primary hazard intensification event", up, "Strong", "High", "Low"),
             Node("node_2", "Impact", <<"Infrastructure Stress">>, 70,
                  "Physical degradation of critical assets", up, "Moderate", "Medium", "Medium"),
             Node("node_3", "Stress", <<systemLabel, "System Pressure">>, 72,
                  "Operational capacity near limits", flat, "Weak", "Medium", "Medium"),
             Node("node_4", "Response", <<"Emergency Response Activation">>, 58,
                  "Deployment of contingency resources", flat, "Weak", "Low", "High"),
             Node("node_5", "Market", <<"Economic Ripple Effects">>, 45,
                  "Localized financial disruption", up, "Moderate", "Medium", "High"),
             Node("node_6", "Behavior", <<"Population Adaptation">>, 52,
                  "Short-term behavioral shifts", flat, "Weak", "Low", "Very High"),
             Node("node_7", "Feedback", <<"Systemic Feedback Loop">>, 38,
                  "Reinforcing cycle of vulnerability", up, "Strong", "Low", "High") >>,
        spillover |->
          [ score |-> 62,
            linked_communities |-> <<"Adjacent Metro Area", "Upstream Region", "Connected Zone">>,
            pathway |-> "Commuting/Labor" ] ]

\* DatasetRegistry.toArray
DatasetRegistryToArray ==
  << [source_id |-> "IPCC-AR6", version |-> versions[1][2], as_of |-> "2023-11-10"],
     [source_id |-> "NOAA", version |-> versions[2][2], as_of |-> "2024-01-15"],
     [source_id |-> "ERA5", version |-> versions[5][2], as_of |-> "2024-02-01"] >>

\* new Date().toISOString() at instant t
IsoString(t) == <<"iso", t>>

Assemble(w, t, unit, up, flat) ==
  [ location |-> getRegion(w.location_key),
    baseline |-> getBaseline(w, unit),
    risk_chain |-> getChain(w, up, flat),
    metadata |->
      [ as_of_timestamp |-> IsoString(t),
        dataset_versions |-> DatasetRegistryToArray,
        provenance |->
          "Combined regional anomaly modeling with local connectivity graph service." ] ]

\* the dashboard the mock branch assembles at instant t
MockDashboard(w, t) == Assemble(w, t, MOCK_unit, MOCK_up, MOCK_flat)

\* a remote service's answer that keeps the contract
RemoteDashboard(w, t) == Assemble(w, t, UNIT_degC, ARROW_up, ARROW_flat)

\* a remote service's answer with a spillover score of 1.2
RemoteBadScore(w, t) ==
  [RemoteDashboard(w, t) EXCEPT !.risk_chain.spillover.score = 120]

\* a remote service's answer without the baseline section
RemoteNoBaseline(w, t) == [RemoteDashboard(w, t) EXCEPT !.baseline = Missing]

RemotePayloads(w, t) ==
  { RemoteDashboard(w, t), RemoteBadScore(w, t), RemoteNoBaseline(w, t) }

\* ------------------------------------------------------------------------
\* Contract validator: the paths of the violated rules, in schema order
\* ------------------------------------------------------------------------
\* an issue that names the enclosing object instead of the field
Check_parentPath(ok, path) == IF ok THEN <<>> ELSE << SubSeq(path, 1, Len(path) - 1) >>

\* one Zod issue for a rule that is not kept, none otherwise
Check(ok, path) == IF ok THEN <<>> ELSE <<path>>

ConfidenceLevels == {"High", "Medium", "Low"}
DriftDirections == {ARROW_up, ARROW_down, ARROW_flat}
DriftMagnitudes == {"Strong", "Moderate", "Weak"}
NodeTypes == {"Risk", "Impact", "Stress", "Response", "Market", "Behavior", "Feedback"}

LocationErrors(l) ==
  IF l = Missing THEN << <<"location">> >>
  ELSE Check(Len(l.location_key) >= 1, <<"location", "location_key">>)
    \o Check(l.normalized_address # "", <<"location", "normalized_address">>)
    \o Check(l.region_profile.climate_regime # "",
              <<"location", "region_profile", "climate_regime">>)

BaselineErrors(b) ==
  IF b = Missing THEN << <<"baseline">> >>
  ELSE Check(b.warming_estimate >= 0 /\ b.warming_estimate <= 1000,
             <<"baseline", "warming_estimate">>)
    \o Check(b.unit = UNIT_degC, <<"baseline", "unit">>)
    \o Check(b.period_comparison # "", <<"baseline", "period_comparison">>)
    \o Check(b.confidence.level \in ConfidenceLevels,
              <<"baseline", "confidence", "level">>)
    \o Check(b.confidence.reason # "", <<"baseline", "confidence", "reason">>)

NodeErrors(n, i) ==
  LET at == <<"risk_chain", "nodes", i - 1>>
  IN  Check(n.id # "", at \o <<"id">>)
   \o Check(Len(n.label) >= 1, at \o <<"label">>)
   \o Check(n.type \in NodeTypes, at \o <<"type">>)
   \o Check(n.severity >= 0 /\ n.severity <= 100, at \o <<"severity">>)
   \o Check(n.description # "", at \o <<"description">>)
   \o Check(n.drift.direction \in DriftDirections, at \o <<"drift", "direction">>)
   \o Check(n.drift.magnitude \in DriftMagnitudes, at \o <<"drift", "magnitude">>)
   \o Check(n.drift.confidence \in ConfidenceLevels, at \o <<"drift", "confidence">>)
   \o Check(n.uncertainty # "", at \o <<"uncertainty">>)

RECURSIVE NodesErrors(_, _)
NodesErrors(nodes, i) ==
  IF i > Len(nodes) THEN <<>>
  ELSE NodeErrors(nodes[i], i) \o NodesErrors(nodes, i + 1)

RiskChainErrors(r) ==
  IF r = Missing THEN << <<"risk_chain">> >>
  ELSE Check(Len(r.hazard) >= 1, <<"risk_chain", "hazard">>)
    \o Check(Len(r.system) >= 1, <<"risk_chain", "system">>)
    \o Check(Len(r.nodes) >= 1, <<"risk_chain", "nodes">>)
    \o NodesErrors(r.nodes, 1)
    \o Check(r.spillover.score >= 0 /\ r.spillover.score <= 100,
              <<"risk_chain", "spillover", "score">>)
    \o Check(r.spillover.pathway # "", <<"risk_chain", "spillover", "pathway">>)

RECURSIVE VersionsErrors(_, _)
VersionsErrors(list, i) ==
  IF i > Len(list) THEN <<>>
  ELSE LET at == <<"metadata", "dataset_versions", i - 1>>
       IN  Check(list[i].source_id # "", at \o <<"source_id">>)
        \o Check(Len(list[i].version) >= 1, at \o <<"version">>)
        \o Check(list[i].as_of # "", at \o <<"as_of">>)
        \o VersionsErrors(list, i + 1)

MetadataErrors(m) ==
  IF m = Missing THEN << <<"metadata">> >>
  ELSE Check(Len(m.as_of_timestamp) >= 1, <<"metadata", "as_of_timestamp">>)
    \o Check(Len(m.dataset_versions) >= 1, <<"metadata", "dataset_versions">>)
    \o VersionsErrors(m.dataset_versions, 1)
    \o Check(m.provenance # "", <<"metadata", "provenance">>)

\* validateDashboard(data).errors; success is the empty list
validateDashboard(d) ==
  IF d = Null THEN << <<>> >>
  ELSE LocationErrors(d.location) \o BaselineErrors(d.baseline)
         \o RiskChainErrors(d.risk_chain) \o MetadataErrors(d.metadata)

\* a result object that reports a failure without any error
ValidationResult_noErrors(d) ==
  IF validateDashboard(d) = <<>>
  THEN [success |-> TRUE, data |-> d]
  ELSE [success |-> FALSE, errors |-> <<>>]

\* the object validateDashboard returns: parse inside try, the ZodError's
\* issues mapped to errors in the catch
ValidationResult(d) ==
  LET issues == validateDashboard(d)
  IN  IF issues = <<>>
      THEN [success |-> TRUE, data |-> d]
      ELSE [success |-> FALSE, errors |-> issues]

\* ------------------------------------------------------------------------
\* Input domains
\* ------------------------------------------------------------------------
\* Hazard tags, location keys and system tags as a caller can send them;
\* some hold the characters the fingerprint uses as delimiters.
HazardTags ==
  { STR_a, STR_b, STR_a_comma_b, STR_a_colon }
LocationKeys == { STR_a, STR_b, STR_a_colon }
SystemTags == { STR_a, STR_colon_a }
PrecisionLevels == { Absent, STR_exact, STR_approximate }

HazardLists == UNION { [1..n -> HazardTags] : n \in 0..MaxHazards }

WizardState ==
  [ location_key : LocationKeys \cup {Absent},
    selected_hazards : HazardLists,
    selected_system : SystemTags \cup {Absent},
    precision_level : PrecisionLevels ]

\* a guard that lets an empty hazard list pass
MissingRequired_ignoresHazards(inputs) ==
  \/ inputs.location_key = Absent
  \/ inputs.selected_system = Absent

\* the guard of getUnifiedDashboard
MissingRequired(inputs) ==
  \/ inputs.location_key = Absent
  \/ Len(inputs.selected_hazards) = 0
  \/ inputs.selected_system = Absent

ValidInputs == { w \in WizardState : ~MissingRequired(w) }

Range(f) == { f[i] : i \in DOMAIN f }

Orderings(list) ==
  LET n == Len(list)
      Bij == { p \in [1..n -> 1..n] : \A i, j \in 1..n : p[i] = p[j] => i = j }
  IN  { [i \in 1..n |-> list[p[i]]] : p \in Bij }

\* ------------------------------------------------------------------------
\* Sample keys and values for calls made on the CacheLayer directly
\* ------------------------------------------------------------------------
SampleInputs(loc) ==
  [ location_key |-> loc,
    selected_hazards |-> << STR_a >>,
    selected_system |-> STR_a,
    precision_level |-> Absent ]

SampleKeys ==
  { generateCacheKey(SampleInputs(STR_a)),
    generateCacheKey(SampleInputs(STR_b)) }
SampleValues == { [sample |-> 1], [sample |-> 2] }
SampleTTLs == { 0, DefaultTTL }
TickSteps == { RiskDelay, DefaultTTL }

NoOp == [op |-> "none"]
NoSet == [value |-> Null]

KeyIdle ==
  /\ snapshot = SampleInputs(STR_a)
  /\ variant = snapshot
  /\ rel = "none"
  /\ fp = generateCacheKey(snapshot)
  /\ fpOther = fp

NoKey == <<>>

NoInputs ==
  [ location_key |-> Absent, selected_hazards |-> <<>>,
    selected_system |-> Absent, precision_level |-> Absent ]

CallIds == 1..MaxCalls

IdleCall ==
  [ pc |-> "idle", inputs |-> NoInputs, cacheKey |-> NoKey, cached |-> Null,
    pending |-> {}, dispatchedAt |-> 0, requestId |-> NoKey,
    dashboard |-> Null, result |-> Null, error |-> "none", errors |-> <<>>,
    dispatches |-> 0, validations |-> 0, reads |-> 0, writes |-> 0,
    startedAt |-> 0, storedAt |-> 0, saw |-> 0, log |-> <<>>,
    method |-> "none", body |-> NoInputs, status |-> 0,
    payload |-> Null, resolved |-> {}, reply |-> Null, responses |-> 0,
    response |-> Null ]

OrchIdle ==
  /\ calls = [c \in CallIds |-> IdleCall]
  /\ writer = [k \in {} |-> 0]

\* a dashboard that keeps the contract
SampleDashboard(prec) ==
  RemoteDashboard([ location_key |-> STR_a, selected_hazards |-> << STR_a >>,
                    selected_system |-> STR_a, precision_level |-> prec ], 0)

ValIdle ==
  /\ doc = SampleDashboard(STR_exact)
  /\ verdict = ValidationResult(doc)
  /\ broken = {}
  /\ mutations = 0

\* the wizard inputs of a fresh WizardFlow: { selected_hazards: [] }
NoWizardInputs ==
  [ location_key |-> Absent, normalized_location |-> Missing,
    selected_hazards |-> <<>>, selected_hazards_ref |-> 0,
    selected_system |-> Absent, precision_level |-> Absent ]

NoFlight == [call |-> 0, key |-> Null]

WizIdle ==
  /\ currentStep = 1
  /\ wizardState = NoWizardInputs
  /\ dashboardData = Null
  /\ isLoadingDashboard = FALSE
  /\ dashboardError = Null
  /\ dashboardRequestKey = Null
  /\ flight = NoFlight
  /\ resolves = {}
  /\ started = 0
  /\ wizOp = [op |-> "none", at |-> 0]

CacheIdle ==
  /\ now = 0
  /\ ticks = 0
  /\ cache = EmptyStore
  /\ lastOp = NoOp
  /\ history = [k \in SampleKeys |-> NoSet]

\* ------------------------------------------------------------------------
\* The fingerprint as a function: SpecKey
\* ------------------------------------------------------------------------
KeyInit ==
  /\ CacheIdle
  /\ snapshot \in ValidInputs
  /\ variant = snapshot
  /\ rel = "none"
  /\ fp = generateCacheKey(snapshot)
  /\ fpOther = fp
  /\ mode = "mock"
  /\ OrchIdle
  /\ ValIdle
  /\ WizIdle

Derive(kind, w) ==
  /\ rel = "none"
  /\ variant' = w
  /\ rel' = kind
  /\ fpOther' = generateCacheKey(w)
  /\ UNCHANGED <<snapshot, fp, clockVars, cacheVars, orchVars, valVars, wizVars>>

\* the same selection made in another order
Permute ==
  \E h \in Orderings(snapshot.selected_hazards) :
    Derive("perm", [snapshot EXCEPT !.selected_hazards = h])

ChangeLocation ==
  \E l \in LocationKeys \ {snapshot.location_key} :
    Derive("location", [snapshot EXCEPT !.location_key = l])

\* toggleHazard of a tag that is not selected yet
AddHazard ==
  \E h \in HazardTags \ Range(snapshot.selected_hazards) :
    Derive("hazard", [snapshot EXCEPT !.selected_hazards = Append(@, h)])

ChangeSystem ==
  \E s \in SystemTags \ {snapshot.selected_system} :
    Derive("system", [snapshot EXCEPT !.selected_system = s])

ChangePrecision ==
  \E p \in PrecisionLevels :
    /\ OrDefault(p, STR_approximate)
         # OrDefault(snapshot.precision_level, STR_approximate)
    /\ Derive("precision", [snapshot EXCEPT !.precision_level = p])

KeyNext ==
  \/ Permute
  \/ ChangeLocation
  \/ AddHazard
  \/ ChangeSystem
  \/ ChangePrecision

SpecKey == KeyInit /\ [][KeyNext]_vars

\* ------------------------------------------------------------------------
\* The cache layer on its own: SpecCache
\* ------------------------------------------------------------------------
\* the clock moves on
TickBy(steps) ==
  /\ ticks < MaxTicks
  /\ \E d \in steps : now' = now + d
  /\ ticks' = ticks + 1
  /\ lastOp' = NoOp
  /\ UNCHANGED <<keyVars, valVars, wizVars, cache, history, orchVars>>

Tick == TickBy(TickSteps)

\* await cacheLayer.get(key)
CacheGet ==
  \E key \in SampleKeys :
    /\ cache' = CacheGetStore(cache, key, now)
    /\ lastOp' = [op |-> "get", key |-> key,
                  ret |-> CacheGetValue(cache, key, now),
                  after |-> IF lastOp.op = "set" /\ lastOp.key = key
                            THEN lastOp.value ELSE Null]
    /\ UNCHANGED <<keyVars, valVars, wizVars, clockVars, history, orchVars>>

\* await cacheLayer.set(key, value, ttl)
CacheSet ==
  \E key \in SampleKeys, value \in SampleValues, ttl \in SampleTTLs :
    /\ cache' = CacheSetStore(cache, key, value, ttl, now)
    /\ lastOp' = [op |-> "set", key |-> key, value |-> value, ttl |-> ttl]
    /\ history' = [history EXCEPT ![key] =
                     [value |-> value, expiresAt |-> now + ttl,
                      over |-> key \in DOMAIN cache,
                      prev |-> IF key \in DOMAIN cache
                               THEN cache[key].expiresAt ELSE 0]]
    /\ UNCHANGED <<keyVars, valVars, wizVars, clockVars, orchVars>>

\* cacheLayer.clear()
CacheClear ==
  /\ cache' = CacheClearStore(cache)
  /\ lastOp' = [op |-> "clear"]
  /\ history' = [k \in SampleKeys |-> NoSet]
  /\ UNCHANGED <<keyVars, valVars, wizVars, clockVars, orchVars>>

CacheInit == CacheIdle /\ KeyIdle /\ mode = "mock" /\ OrchIdle /\ ValIdle /\ WizIdle

CacheNext ==
  \/ Tick
  \/ CacheGet
  \/ CacheSet
  \/ CacheClear

SpecCache == CacheInit /\ [][CacheNext]_vars

\* ------------------------------------------------------------------------
\* The orchestration entry point: Spec
\* ------------------------------------------------------------------------
Req(loc, hazards, sys, prec) ==
  [ location_key |-> loc, selected_hazards |-> hazards,
    selected_system |-> sys, precision_level |-> prec ]

\* The requests callers make: the same selection in two orders and with
\* the precision left out or given, tags that hold a delimiter, another
\* location, and requests with a required field missing.
Requests ==
  { Req(STR_a, << STR_a, STR_b >>, STR_a, Absent),
    Req(STR_a, << STR_b, STR_a >>, STR_a, STR_approximate),
    Req(STR_a, << STR_a_comma_b >>, STR_a, Absent),
    Req(STR_b, << STR_a >>, STR_a, STR_exact),
    Req(Absent, << STR_a >>, STR_a, STR_exact),
    Req(STR_b, <<>>, STR_a, STR_exact),
    Req(STR_b, << STR_a >>, Absent, STR_exact) }

\* a Promise.all that does not wait for the risk chain
Generators_noRisk == {"location", "baseline"}

Generators == {"location", "baseline", "risk"}

Delay(g) ==
  CASE g = "location" -> LocationDelay
    [] g = "baseline" -> BaselineDelay
    [] g = "risk" -> RiskDelay

Event(level, message, key) == <<level, message, key>>

\* the fields of the object passed to apiLogger with each message
Payload(message) ==
  CASE message = "Missing required inputs" -> {"inputs"}
    [] message = "Dashboard request" -> {"cacheKey", "inputs", "mode"}
    [] message = "Cache hit" -> {"cacheKey"}
    [] message = "Cache miss" -> {"cacheKey"}
    [] message = "Using MOCK services" -> {}
    [] message = "Fetching dashboard from real API" -> {"cacheKey", "inputs"}
    [] message = "API request failed" -> {"status", "statusText", "body", "cacheKey"}
    [] message = "Real API response received" -> {"cacheKey", "as_of"}
    [] message = "API call failed" -> {"error", "cacheKey", "inputs"}
    [] message = "Dashboard validation failed" ->
         {"errors", "cacheKey", "inputs", "dataset_versions"}
    [] message = "Dashboard validated successfully" ->
         {"cacheKey", "as_of_timestamp", "dataset_versions", "node_count"}

\* getUnifiedDashboard(inputs) up to its first await: the guard, the
\* fingerprint, the request log line and the body of cacheLayer.get;
\* `base` is the caller's record of call c so far
Invoke(c, w, base) ==
  IF MissingRequired(w)
  THEN /\ calls' = [calls EXCEPT ![c] =
            [base EXCEPT !.pc = "failed", !.inputs = w, !.error = "input",
                         !.startedAt = now,
                         !.log = <<Event("error", "Missing required inputs", NoKey)>>]]
       /\ UNCHANGED <<cache, writer>>
  ELSE LET key == generateCacheKey(w)
           got == CacheGetValue(cache, key, now)
       IN  /\ cache' = CacheGetStore(cache, key, now)
           /\ calls' = [calls EXCEPT ![c] =
                [base EXCEPT !.pc = "lookup", !.inputs = w, !.cacheKey = key,
                             !.cached = got, !.reads = 1, !.startedAt = now,
                             !.saw = IF key \in DOMAIN writer
                                     THEN writer[key] ELSE 0,
                             !.log = <<Event("info", "Dashboard request", key)>>]]
           /\ UNCHANGED writer

\* the wizard calls getUnifiedDashboard(wizardState)
GetUnifiedDashboard ==
  \E c \in CallIds, w \in Requests :
    /\ calls[c].pc = "idle"
    /\ \A d \in CallIds : d < c => calls[d].pc # "idle"
    /\ Invoke(c, w, calls[c])
    /\ UNCHANGED <<keyVars, valVars, wizVars, clockVars, lastOp, history, mode>>

\* the X-Request-ID header of the outbound request of call c
RequestId_perCall(c) == Append(calls[c].cacheKey, Colon) \o ToString36(c)

RequestId(c) == calls[c].cacheKey

\* after `await cacheLayer.get`: return the cached value, or dispatch
CacheLookupDone ==
  \E c \in CallIds :
    /\ calls[c].pc = "lookup"
    /\ LET k == calls[c].cacheKey
       IN  calls' = [calls EXCEPT ![c] =
             IF @.cached # Null
             THEN [@ EXCEPT !.pc = "done", !.result = calls[c].cached,
                            !.log = Append(@, Event("info", "Cache hit", k))]
             ELSE IF mode = "mock"
             THEN [@ EXCEPT !.pc = "dispatch", !.pending = Generators,
                            !.dispatchedAt = now, !.dispatches = @ + 1,
                            !.log = @ \o <<Event("info", "Cache miss", k),
                                           Event("verbose", "Using MOCK services", NoKey)>>]
             ELSE [@ EXCEPT !.pc = "fetch", !.requestId = RequestId(c),
                            !.dispatchedAt = now, !.dispatches = @ + 1,
                            !.log = @ \o <<Event("info", "Cache miss", k),
                                           Event("info", "Fetching dashboard from real API", k)>>]]
    /\ UNCHANGED <<keyVars, valVars, wizVars, clockVars, cacheVars, mode, writer>>

\* the end of a dispatch: `errs` decides between the throw and the store,
\* `reported` is what the thrown error carries
Complete(c, dashboard, received, errs, reported) ==
  LET k == calls[c].cacheKey
  IN  IF errs # <<>>
      THEN /\ calls' = [calls EXCEPT ![c] =
                [@ EXCEPT !.pc = "failed", !.error = "contract", !.errors = reported,
                          !.pending = {}, !.resolved = @ \cup calls[c].pending,
                          !.payload = dashboard, !.validations = @ + 1,
                          !.log = @ \o received
                                    \o <<Event("error", "Dashboard validation failed", k)>>]]
           /\ UNCHANGED <<cache, writer>>
      ELSE /\ calls' = [calls EXCEPT ![c] =
                [@ EXCEPT !.pc = "stored", !.dashboard = dashboard,
                          !.pending = {}, !.resolved = @ \cup calls[c].pending,
                          !.payload = dashboard, !.validations = @ + 1,
                          !.writes = @ + 1, !.storedAt = now,
                          !.log = @ \o received
                                    \o <<Event("info", "Dashboard validated successfully", k)>>]]
           /\ cache' = CacheSetStore(cache, k, dashboard, DefaultTTL, now)
           /\ writer' = [x \in DOMAIN writer \cup {k} |-> IF x = k THEN c ELSE writer[x]]

\* an error that carries only the first violation
Finish_firstErrorOnly(c, dashboard, received) ==
  LET errs == validateDashboard(dashboard)
  IN  Complete(c, dashboard, received, errs, SubSeq(errs, 1, 1))

\* a store that does not wait for the validator's verdict
Finish_storesUnvalidated(c, dashboard, received) ==
  Complete(c, dashboard, received, <<>>, <<>>)

\* validateDashboard on the dispatched payload, then throw or store
Finish(c, dashboard, received) ==
  Complete(c, dashboard, received,
           validateDashboard(dashboard), validateDashboard(dashboard))

\* a timer is due and no timer set for an earlier instant is still pending
TimerFires(c, g) ==
  /\ now >= calls[c].dispatchedAt + Delay(g)
  /\ \A d \in CallIds : \A h \in calls[d].pending :
       calls[d].dispatchedAt + Delay(h) >= calls[c].dispatchedAt + Delay(g)
  /\ \A r \in resolves : r.due >= calls[c].dispatchedAt + Delay(g)

\* a Promise.race in the place of Promise.all: the first result settles it
AllSettled_race(c, g) == TRUE

\* Promise.all resolves when the last of its promises does
AllSettled(c, g) == calls[c].pending = {g}

\* a mock sub-generator resolves; the last one completes Promise.all
MockPartDone ==
  \E c \in CallIds, g \in Generators :
    /\ calls[c].pc = "dispatch"
    /\ g \in calls[c].pending
    /\ TimerFires(c, g)
    /\ IF AllSettled(c, g)
       THEN Finish(c, MockDashboard(calls[c].inputs, now), <<>>)
       ELSE /\ calls' = [calls EXCEPT ![c] =
                 [@ EXCEPT !.pending = @ \ {g}, !.resolved = @ \cup {g}]]
            /\ UNCHANGED <<cache, writer>>
    /\ UNCHANGED <<keyVars, valVars, wizVars, clockVars, lastOp, history, mode>>

\* the remote service answers 2xx with a JSON document
FetchOk ==
  \E c \in CallIds :
    /\ calls[c].pc = "fetch"
    /\ now < calls[c].dispatchedAt + ApiTimeout
    /\ \E payload \in RemotePayloads(calls[c].inputs, now) :
         Finish(c, payload,
                <<Event("info", "Real API response received", calls[c].cacheKey)>>)
    /\ UNCHANGED <<keyVars, valVars, wizVars, clockVars, lastOp, history, mode>>

\* a dispatch that is tried once more after a failure
DispatchFails_retries(c, events, detail, response) ==
  /\ calls' = [calls EXCEPT ![c] =
       IF @.dispatches < 2
       THEN [@ EXCEPT !.dispatchedAt = now, !.dispatches = @ + 1, !.log = @ \o events]
       ELSE [@ EXCEPT !.pc = "failed", !.error = "dispatch", !.errors = <<detail>>,
                      !.response = response, !.log = @ \o events]]
  /\ UNCHANGED <<keyVars, valVars, wizVars, clockVars, cacheVars, mode, writer>>

\* the catch block of the real mode: the error is logged and thrown again;
\* `detail` is the message of the error, `response` the answer received
DispatchFails(c, events, detail, response) ==
  /\ calls' = [calls EXCEPT ![c] =
       [@ EXCEPT !.pc = "failed", !.error = "dispatch", !.errors = <<detail>>,
                 !.response = response, !.log = @ \o events]]
  /\ UNCHANGED <<keyVars, valVars, wizVars, clockVars, cacheVars, mode, writer>>

\* the answers of the remote service whose status is not 2xx
NotOkResponses ==
  { [status |-> 500, statusText |-> "Internal Server Error",
     body |-> "upstream unavailable"] }

\* `API request failed: ${response.status} ${response.statusText}`
NotOkMessage(r) == <<"API request failed", ToString(r.status), r.statusText>>

\* the remote service answers with a non-2xx status
FetchNotOk ==
  \E c \in CallIds, r \in NotOkResponses :
    /\ calls[c].pc = "fetch"
    /\ now < calls[c].dispatchedAt + ApiTimeout
    /\ DispatchFails(c, <<Event("error", "API request failed", calls[c].cacheKey),
                          Event("error", "API call failed", calls[c].cacheKey)>>,
                     NotOkMessage(r), r)

\* fetch rejects (the network is down), or response.json() rejects, or
\* the body is the JSON null and reading dashboard.metadata throws
FetchRejects ==
  \E c \in CallIds, detail \in {"fetch failed", "body"} :
    /\ calls[c].pc = "fetch"
    /\ now < calls[c].dispatchedAt + ApiTimeout
    /\ DispatchFails(c, <<Event("error", "API call failed", calls[c].cacheKey)>>,
                     <<detail>>, Null)

\* a fetch whose AbortSignal.timeout is never set
FetchTimeout_noSignal == FALSE /\ UNCHANGED vars

\* AbortSignal.timeout(config.timeout) aborts the request
FetchTimeout ==
  \E c \in CallIds :
    /\ calls[c].pc = "fetch"
    /\ now >= calls[c].dispatchedAt + ApiTimeout
    /\ DispatchFails(c, <<Event("error", "API call failed", calls[c].cacheKey)>>,
                     <<"timeout">>, Null)

\* after `await cacheLayer.set`: return dashboard
ReturnStored ==
  \E c \in CallIds :
    /\ calls[c].pc = "stored"
    /\ calls' = [calls EXCEPT ![c] = [@ EXCEPT !.pc = "done", !.result = calls[c].dashboard]]
    /\ UNCHANGED <<keyVars, valVars, wizVars, clockVars, cacheVars, mode, writer>>

Init ==
  /\ CacheIdle
  /\ KeyIdle
  /\ mode \in {"mock", "real"}
  /\ OrchIdle
  /\ ValIdle
  /\ WizIdle

Next ==
  \/ Tick
  \/ GetUnifiedDashboard
  \/ CacheLookupDone
  \/ MockPartDone
  \/ FetchOk
  \/ FetchNotOk
  \/ FetchRejects
  \/ FetchTimeout
  \/ ReturnStored

Spec == Init /\ [][Next]_vars

\* ------------------------------------------------------------------------
\* The HTTP surface, POST /api/wizard/dashboard: SpecHandler
\* ------------------------------------------------------------------------
Methods == {"GET", "POST"}

\* the request check of the handler
HandlerRefuses_checksSystem(body) == MissingRequired(body)

HandlerRefuses(body) ==
  \/ body.location_key = Absent
  \/ Len(body.selected_hazards) = 0

\* the handler up to `await getUnifiedDashboard(wizardState)`
\* a method check that lets every method through
IsPost_any(method) == TRUE

\* req.method === 'POST'
IsPost(method) == method = "POST"

\* a handler that answers 200 whatever the orchestrator did
StatusFor_always200(outcome) == 200

\* the status after the await: 200 from the try, 500 from the catch
StatusFor(outcome) == IF outcome = "done" THEN 200 ELSE 500

\* error.message of the Error the orchestrator threw
ErrorMessage(call) == [kind |-> call.error, details |-> call.errors]

\* res.status(status).json(reply)
Respond(call, status, reply) ==
  [call EXCEPT !.status = status, !.reply = reply, !.responses = @ + 1]

Handler ==
  \E c \in CallIds, method \in Methods, body \in Requests :
    /\ calls[c].pc = "idle"
    /\ \A d \in CallIds : d < c => calls[d].pc # "idle"
    /\ IF ~IsPost(method)
       THEN /\ calls' = [calls EXCEPT ![c] =
                 Respond([@ EXCEPT !.pc = "responded", !.method = method, !.body = body],
                         405, [error |-> "method_not_allowed",
                               message |-> "Only POST allowed"])]
            /\ UNCHANGED <<cache, writer>>
       ELSE IF HandlerRefuses(body)
       THEN /\ calls' = [calls EXCEPT ![c] =
                 Respond([@ EXCEPT !.pc = "responded", !.method = method, !.body = body],
                         400, [error |-> "invalid_request",
                               message |-> "Missing required fields: location_key, selected_hazards"])]
            /\ UNCHANGED <<cache, writer>>
       ELSE Invoke(c, [body EXCEPT !.precision_level = OrDefault(@, STR_approximate)],
                   [calls[c] EXCEPT !.method = method, !.body = body])
    /\ UNCHANGED <<keyVars, valVars, wizVars, clockVars, lastOp, history, mode>>

\* the handler of request c after the await: 200 with the result, or 500
\* with the error's message from the catch
RespondTo(c) ==
  /\ calls[c].method # "none"
  /\ calls[c].status = 0
  /\ calls[c].pc \in {"done", "failed"}
  /\ calls' = [calls EXCEPT ![c] =
       Respond(@, StatusFor(calls[c].pc),
               IF calls[c].pc = "done" THEN calls[c].result
               ELSE [error |-> "internal_server_error",
                     message |-> ErrorMessage(calls[c])])]
  /\ UNCHANGED <<keyVars, valVars, wizVars, clockVars, cacheVars, mode, writer>>

HandlerResponds == \E c \in CallIds : RespondTo(c)

HandlerNext ==
  \/ Tick
  \/ Handler
  \/ CacheLookupDone
  \/ MockPartDone
  \/ FetchOk
  \/ FetchNotOk
  \/ FetchRejects
  \/ FetchTimeout
  \/ ReturnStored
  \/ HandlerResponds

SpecHandler == Init /\ [][HandlerNext]_vars

\* ------------------------------------------------------------------------
\* The contract validator on its own: a value that keeps the contract is
\* changed field by field, and validateDashboard is called on each version
\* ------------------------------------------------------------------------
WarmingPath == <<"baseline", "warming_estimate">>
UnitPath == <<"baseline", "unit">>
LevelPath == <<"baseline", "confidence", "level">>
NodesPath == <<"risk_chain", "nodes">>
ScorePath == <<"risk_chain", "spillover", "score">>
VersionsPath == <<"metadata", "dataset_versions">>
NodePath(i, field) == <<"risk_chain", "nodes", i - 1>> \o field
Sections == {"location", "baseline", "risk_chain", "metadata"}

\* the nodes a change is made to: the first and the last of the chain
NodeIndexes == {1, 7}

\* values tried for a number whose rule is [0, max] (hundredths), each with
\* whether it breaks the rule
NumberCases(max, over) ==
  { <<0 - 1, TRUE>>, <<0, FALSE>>, <<max, FALSE>>, <<max + 1, TRUE>>, <<over, TRUE>> }
\* values tried for an enumerated field
LevelCases == { <<"Low", FALSE>>, <<"Very High", TRUE>> }
DirectionCases == { <<ARROW_down, FALSE>>, <<MOCK_up, TRUE>> }
MagnitudeCases == { <<"Weak", FALSE>>, <<"Severe", TRUE>> }
TypeCases == { <<"Impact", FALSE>>, <<"Hazard", TRUE>> }
UnitCases == { <<UNIT_degC, FALSE>>, <<MOCK_unit, TRUE>>, <<<<176, 70>>, TRUE>> }

IsPrefix(p, q) == Len(p) <= Len(q) /\ SubSeq(q, 1, Len(p)) = p

\* the value d replaces doc; the rule at `path` is broken iff `bad`, and
\* every rule below `path` is gone with the fields it spoke of
Mutated(d, path, bad) ==
  /\ mutations < MaxMutations
  /\ mutations' = mutations + 1
  /\ doc' = d
  /\ verdict' = ValidationResult(d)
  /\ broken' = { p \in broken : ~IsPrefix(path, p) }
                 \cup (IF bad THEN {path} ELSE {})
  /\ UNCHANGED <<keyVars, clockVars, cacheVars, orchVars, wizVars>>

HasSection(s) == doc # Null /\ doc[s] # Missing
HasNode(i) == HasSection("risk_chain") /\ i <= Len(doc.risk_chain.nodes)

SetWarming ==
  \E c \in NumberCases(1000, 1250) :
    /\ HasSection("baseline")
    /\ Mutated([doc EXCEPT !.baseline.warming_estimate = c[1]], WarmingPath, c[2])

SetUnit ==
  \E c \in UnitCases :
    /\ HasSection("baseline")
    /\ Mutated([doc EXCEPT !.baseline.unit = c[1]], UnitPath, c[2])

SetLevel ==
  \E c \in LevelCases :
    /\ HasSection("baseline")
    /\ Mutated([doc EXCEPT !.baseline.confidence.level = c[1]], LevelPath, c[2])

SetSeverity ==
  \E i \in NodeIndexes, c \in NumberCases(100, 150) :
    /\ HasNode(i)
    /\ Mutated([doc EXCEPT !.risk_chain.nodes[i].severity = c[1]],
               NodePath(i, <<"severity">>), c[2])

SetType ==
  \E i \in NodeIndexes, c \in TypeCases :
    /\ HasNode(i)
    /\ Mutated([doc EXCEPT !.risk_chain.nodes[i].type = c[1]],
               NodePath(i, <<"type">>), c[2])

SetDirection ==
  \E i \in NodeIndexes, c \in DirectionCases :
    /\ HasNode(i)
    /\ Mutated([doc EXCEPT !.risk_chain.nodes[i].drift.direction = c[1]],
               NodePath(i, <<"drift", "direction">>), c[2])

SetMagnitude ==
  \E i \in NodeIndexes, c \in MagnitudeCases :
    /\ HasNode(i)
    /\ Mutated([doc EXCEPT !.risk_chain.nodes[i].drift.magnitude = c[1]],
               NodePath(i, <<"drift", "magnitude">>), c[2])

SetDriftConfidence ==
  \E i \in NodeIndexes, c \in LevelCases :
    /\ HasNode(i)
    /\ Mutated([doc EXCEPT !.risk_chain.nodes[i].drift.confidence = c[1]],
               NodePath(i, <<"drift", "confidence">>), c[2])

SetScore ==
  \E c \in NumberCases(100, 120) :
    /\ HasSection("risk_chain")
    /\ Mutated([doc EXCEPT !.risk_chain.spillover.score = c[1]], ScorePath, c[2])

EmptyNodes ==
  /\ HasSection("risk_chain")
  /\ Mutated([doc EXCEPT !.risk_chain.nodes = <<>>], NodesPath, TRUE)

EmptyVersions ==
  /\ HasSection("metadata")
  /\ Mutated([doc EXCEPT !.metadata.dataset_versions = <<>>], VersionsPath, TRUE)

DropSection ==
  \E s \in Sections :
    /\ HasSection(s)
    /\ Mutated([doc EXCEPT ![s] = Missing], <<s>>, TRUE)

\* a value that is no object at all
ReplaceRoot ==
  /\ doc # Null
  /\ Mutated(Null, <<>>, TRUE)

ValInit ==
  /\ CacheIdle /\ KeyIdle /\ mode = "mock" /\ OrchIdle /\ WizIdle
  /\ doc \in { SampleDashboard(prec) : prec \in {STR_exact, STR_approximate} }
  /\ verdict = ValidationResult(doc)
  /\ broken = {}
  /\ mutations = 0

ValNext ==
  \/ SetWarming
  \/ SetUnit
  \/ SetLevel
  \/ SetSeverity
  \/ SetType
  \/ SetDirection
  \/ SetMagnitude
  \/ SetDriftConfidence
  \/ SetScore
  \/ EmptyNodes
  \/ EmptyVersions
  \/ DropSection
  \/ ReplaceRoot

SpecValidate == ValInit /\ [][ValNext]_vars

\* ------------------------------------------------------------------------
\* The wizard: WizardFlow and its steps in front of the orchestrator.
\* Every action is one handler together with the render that follows it
\* and the invalidation effect of that render.
\* ------------------------------------------------------------------------
STR_Flood == <<70, 108, 111, 111, 100>>
STR_housing == <<104, 111, 117, 115, 105, 110, 103>>
\* "geo_9921_nyc", the key every resolveLocation answer carries
STR_geo == <<103, 101, 111, 95, 57, 57, 50, 49, 95, 110, 121, 99>>

\* the hazard cards and the system card the user clicks
WizardHazards == {STR_Heat, STR_Flood}
WizardSystems == {STR_housing}

\* setTimeout(resolve, 800) in wizardAPI.resolveLocation
ResolveDelay == 800

\* a key that keeps the selection order of the hazards
generateDashboardKey_unsorted(state) ==
  [ location_key |-> state.location_key, hazards |-> state.selected_hazards,
    system |-> state.selected_system,
    precision |-> OrDefault(state.precision_level, STR_approximate) ]

\* JSON.stringify({location_key, hazards: sorted copy, system, precision}):
\* the object that is serialised, its keys always in this order
generateDashboardKey(state) ==
  [ location_key |-> state.location_key, hazards |-> SortStrings(state.selected_hazards),
    system |-> state.selected_system,
    precision |-> OrDefault(state.precision_level, STR_approximate) ]

canProceed(step, state, data) ==
  CASE step = 1 -> state.location_key # Absent
    [] step = 2 -> Len(state.selected_hazards) > 0
    [] step = 3 -> state.selected_system # Absent
    [] OTHER -> data # Null

\* the dependency list of the effect, compared with Object.is: three
\* strings and the hazards array, which is compared by identity
DepsChanged(old, new) ==
  \/ old.location_key # new.location_key
  \/ old.selected_hazards_ref # new.selected_hazards_ref
  \/ old.selected_system # new.selected_system
  \/ old.precision_level # new.precision_level

\* an effect that never finds the result stale
Invalidates_never(state, data, key) == FALSE

\* the effect's test: a result is held and its key differs from the key of
\* the inputs
Invalidates(state, data, key) ==
  /\ data # Null
  /\ key # Null
  /\ generateDashboardKey(state) # key

\* an effect that leaves the step where it is
StepAfterInvalidation_keeps(step) == step

\* if (currentStep > 3) setCurrentStep(3)
StepAfterInvalidation(step) == IF step > 3 THEN 3 ELSE step

\* the render after a handler has set the inputs, the step, the result, its
\* key and the error, followed by the effect when a dependency has changed
Render(state, step, data, key, err) ==
  LET stale == DepsChanged(wizardState, state) /\ Invalidates(state, data, key)
  IN  /\ wizardState' = state
      /\ dashboardData' = IF stale THEN Null ELSE data
      /\ dashboardRequestKey' = IF stale THEN Null ELSE key
      /\ dashboardError' = IF stale THEN Null ELSE err
      /\ currentStep' = IF stale THEN StepAfterInvalidation(step) ELSE step

\* the identity of a newly created hazards array: one that neither the
\* inputs nor a pending handleResolve holds
FreshRef ==
  CHOOSE n \in 0..(MaxResolves + 1) :
    /\ n # wizardState.selected_hazards_ref
    /\ \A r \in resolves : n # r.state.selected_hazards_ref
    /\ \A m \in 0..(n - 1) :
         \/ m = wizardState.selected_hazards_ref
         \/ \E r \in resolves : m = r.state.selected_hazards_ref

\* the step content and the navigation are rendered
StepShown == ~isLoadingDashboard /\ dashboardError = Null

\* the answer of wizardAPI.resolveLocation at instant t (the constant
\* fields of the answer are left out)
LocationResponse(t) ==
  [ location_key |-> STR_geo, normalized_address |-> "address",
    as_of_timestamp |-> IsoString(t) ]

orchFrame == <<keyVars, valVars, clockVars, cacheVars, orchVars>>

\* a continuation of an await that has settled is queued as a microtask
\* (after cacheLayer.get, after cacheLayer.set, after getUnifiedDashboard):
\* it runs before any timer callback
ContinuationQueued ==
  \/ \E c \in CallIds : calls[c].pc \in {"lookup", "stored"}
  \/ flight.call # 0 /\ calls[flight.call].pc \in {"done", "failed"}

\* LocationStep.handleResolve up to its await; the continuation keeps the
\* inputs of this render
HandleResolve ==
  /\ StepShown
  /\ currentStep = 1
  /\ started < MaxResolves
  /\ started' = started + 1
  /\ resolves' = resolves \cup
       {[id |-> started + 1, state |-> wizardState, due |-> now + ResolveDelay]}
  /\ wizOp' = [op |-> "resolve", at |-> currentStep]
  /\ UNCHANGED <<currentStep, wizardState, dashboardData, isLoadingDashboard,
                 dashboardError, dashboardRequestKey, flight>>
  /\ UNCHANGED orchFrame

\* LocationStep.handleResolve after its await: the inputs captured before
\* the await, with the answer's location
ResolveLands ==
  \E r \in resolves :
    /\ now >= r.due
    /\ ~ContinuationQueued
    /\ \A q \in resolves : q.due > r.due \/ (q.due = r.due /\ q.id >= r.id)
    /\ \A d \in CallIds : \A h \in calls[d].pending :
         calls[d].dispatchedAt + Delay(h) >= r.due
    /\ Render([r.state EXCEPT !.location_key = STR_geo,
                              !.normalized_location = LocationResponse(now)],
              currentStep, dashboardData, dashboardRequestKey, dashboardError)
    /\ resolves' = resolves \ {r}
    /\ wizOp' = [op |-> "located", at |-> currentStep]
    /\ UNCHANGED <<isLoadingDashboard, flight, started>>
    /\ UNCHANGED orchFrame

\* ClimateHazardStep.toggleHazard
ToggleHazard ==
  \E h \in WizardHazards :
    /\ StepShown
    /\ currentStep = 2
    /\ LET list == wizardState.selected_hazards
           newHazards == IF h \in Range(list)
                         THEN SelectSeq(list, LAMBDA x : x # h)
                         ELSE Append(list, h)
       IN  Render([wizardState EXCEPT !.selected_hazards = newHazards,
                                      !.selected_hazards_ref = FreshRef],
                  currentStep, dashboardData, dashboardRequestKey, dashboardError)
    /\ wizOp' = [op |-> "toggle", at |-> currentStep]
    /\ UNCHANGED <<isLoadingDashboard, flight, resolves, started>>
    /\ UNCHANGED orchFrame

\* SystemConcernStep: a click on a system card
SelectSystem ==
  \E s \in WizardSystems :
    /\ StepShown
    /\ currentStep = 3
    /\ Render([wizardState EXCEPT !.selected_system = s],
              currentStep, dashboardData, dashboardRequestKey, dashboardError)
    /\ wizOp' = [op |-> "system", at |-> currentStep]
    /\ UNCHANGED <<isLoadingDashboard, flight, resolves, started>>
    /\ UNCHANGED orchFrame

\* WizardFlow.handleNext up to its await, or to its end when it does not
\* fetch
handleNext(op) ==
  IF currentStep = 3 /\ canProceed(3, wizardState, dashboardData)
  THEN LET currentKey == generateDashboardKey(wizardState)
       IN  IF dashboardData = Null \/ currentKey # dashboardRequestKey
           THEN \E c \in CallIds :
                  /\ calls[c].pc = "idle"
                  /\ \A d \in CallIds : d < c => calls[d].pc # "idle"
                  /\ Invoke(c, wizardState, calls[c])
                  /\ isLoadingDashboard' = TRUE
                  /\ dashboardError' = Null
                  /\ flight' = [call |-> c, key |-> currentKey]
                  /\ wizOp' = [op |-> op, at |-> currentStep]
                  /\ UNCHANGED <<currentStep, wizardState, dashboardData,
                                 dashboardRequestKey, resolves, started>>
                  /\ UNCHANGED <<keyVars, valVars, clockVars, lastOp, history, mode>>
           ELSE /\ currentStep' = 4
                /\ wizOp' = [op |-> op, at |-> currentStep]
                /\ UNCHANGED <<wizardState, dashboardData, isLoadingDashboard,
                               dashboardError, dashboardRequestKey, flight,
                               resolves, started>>
                /\ UNCHANGED orchFrame
  ELSE /\ currentStep < 6
       /\ canProceed(currentStep, wizardState, dashboardData)
       /\ currentStep' = currentStep + 1
       /\ wizOp' = [op |-> op, at |-> currentStep]
       /\ UNCHANGED <<wizardState, dashboardData, isLoadingDashboard,
                      dashboardError, dashboardRequestKey, flight, resolves, started>>
       /\ UNCHANGED orchFrame

\* a click on Next, Generate Dashboard or Confirm Location
ClickNext == StepShown /\ handleNext("next")

\* a click on Retry in the error card
ClickRetry ==
  /\ dashboardError # Null
  /\ ~isLoadingDashboard
  /\ handleNext("retry")

\* WizardFlow.handleNext after its await: try, catch and finally
HandleNextResumes ==
  /\ flight.call # 0
  /\ calls[flight.call].pc \in {"done", "failed"}
  /\ IF calls[flight.call].pc = "done"
     THEN Render(wizardState, 4, calls[flight.call].result, flight.key, dashboardError)
     ELSE Render(wizardState, currentStep, dashboardData, dashboardRequestKey,
                 ErrorMessage(calls[flight.call]))
  /\ isLoadingDashboard' = FALSE
  /\ flight' = NoFlight
  /\ wizOp' = [op |-> "resumed", at |-> currentStep]
  /\ UNCHANGED <<resolves, started>>
  /\ UNCHANGED orchFrame

\* WizardFlow.handleBack
HandleBack ==
  /\ StepShown
  /\ currentStep > 1
  /\ currentStep' = currentStep - 1
  /\ wizOp' = [op |-> "back", at |-> currentStep]
  /\ UNCHANGED <<wizardState, dashboardData, isLoadingDashboard, dashboardError,
                 dashboardRequestKey, flight, resolves, started>>
  /\ UNCHANGED orchFrame

\* WizardFlow.handleRestart, from the button of the dashboard step
HandleRestart ==
  /\ StepShown
  /\ currentStep = 6
  /\ Render([NoWizardInputs EXCEPT !.selected_hazards_ref = FreshRef],
            1, Null, dashboardRequestKey, Null)
  /\ wizOp' = [op |-> "restart", at |-> currentStep]
  /\ UNCHANGED <<isLoadingDashboard, flight, resolves, started>>
  /\ UNCHANGED orchFrame

\* the banner "Dashboard Needs Regeneration" with its button is rendered
StaleBannerShown == StepShown /\ currentStep > 3 /\ dashboardData = Null

WizInit == Init

\* a wizard session is followed second by second for MaxTicks seconds: a
\* pending resolveLocation or mock generator becomes due, while no fetch
\* reaches config.timeout and no cache entry its expiry
WizTick == TickBy({RiskDelay})

WizNext ==
  \/ WizTick
  \/ HandleResolve
  \/ ResolveLands
  \/ ToggleHazard
  \/ SelectSystem
  \/ ClickNext
  \/ ClickRetry
  \/ HandleNextResumes
  \/ HandleBack
  \/ HandleRestart
  \/ CacheLookupDone
  \/ MockPartDone
  \/ FetchOk
  \/ FetchNotOk
  \/ FetchRejects
  \/ ReturnStored

SpecWizard == WizInit /\ [][WizNext]_vars

\* ------------------------------------------------------------------------
\* The wizard and the orchestrator with time that goes on: the clock moves
\* from one pending timer to the next (a mock generator, a resolveLocation
\* answer, the AbortSignal.timeout of a fetch), timer callbacks and
\* continuations of settled awaits run, and the remote service may never
\* answer.  The user goes through the steps forwards (Back starts no call
\* and no timer).
\* ------------------------------------------------------------------------
\* the instants at which a pending timer is due
Dues ==
  UNION { { calls[c].dispatchedAt + Delay(g) : g \in calls[c].pending } : c \in CallIds }
    \cup { calls[c].dispatchedAt + ApiTimeout : c \in {d \in CallIds : calls[d].pc = "fetch"} }
    \cup { r.due : r \in resolves }

\* the clock reaches the next instant at which a timer is due
TimePasses ==
  /\ \E t \in Dues :
       /\ t > now
       /\ \A u \in Dues : u > now => u >= t
       /\ now' = t
  /\ lastOp' = NoOp
  /\ UNCHANGED <<keyVars, valVars, wizVars, ticks, cache, history, orchVars>>

LiveNext ==
  \/ TimePasses
  \/ HandleResolve
  \/ ResolveLands
  \/ ToggleHazard
  \/ SelectSystem
  \/ ClickNext
  \/ ClickRetry
  \/ HandleNextResumes
  \/ HandleRestart
  \/ CacheLookupDone
  \/ MockPartDone
  \/ FetchOk
  \/ FetchNotOk
  \/ FetchRejects
  \/ FetchTimeout
  \/ ReturnStored

\* the event loop runs every callback that is due; the user and the
\* remote service owe nothing
Fairness ==
  /\ WF_vars(TimePasses)
  /\ WF_vars(ResolveLands)
  /\ WF_vars(CacheLookupDone)
  /\ WF_vars(MockPartDone)
  /\ WF_vars(FetchTimeout)
  /\ WF_vars(ReturnStored)
  /\ WF_vars(HandleNextResumes)

SpecLive == WizInit /\ [][LiveNext]_vars /\ Fairness

\* ------------------------------------------------------------------------
\* C1: every permutation of selected_hazards yields the same fingerprint;
\* selection order never affects the key.
\* ------------------------------------------------------------------------
C1_OrderInsensitive == rel = "perm" => fpOther = fp

C1_Witness ==
  /\ rel = "perm"
  /\ variant.selected_hazards # snapshot.selected_hazards
  /\ fpOther = fp

\* ------------------------------------------------------------------------
\* C3: with dataset versions fixed, changing exactly one of location_key,
\* the hazard set (one hazard added), selected_system or the effective
\* precision changes the fingerprint.
\* ------------------------------------------------------------------------
C3_SingleFieldChanges ==
  rel \in {"location", "hazard", "system", "precision"} => fpOther # fp

C3_Witness ==
  /\ rel = "hazard"
  /\ Len(variant.selected_hazards) = Len(snapshot.selected_hazards) + 1
  /\ variant.location_key = snapshot.location_key
  /\ variant.selected_system = snapshot.selected_system
  /\ fpOther # fp

\* ------------------------------------------------------------------------
\* C5: get(k) right after set(k, v, ttl) with ttl >= 0, with no clock
\* advance and no other call in between, returns v.
\* ------------------------------------------------------------------------
C5_GetAfterSet ==
  (lastOp.op = "get" /\ lastOp.after # Null) => lastOp.ret = lastOp.after

C5_Witness ==
  /\ lastOp.op = "get"
  /\ lastOp.after # Null
  /\ lastOp.ret = lastOp.after
  /\ history[lastOp.key].expiresAt = now

\* ------------------------------------------------------------------------
\* C6: a get(k) made when now > expiresAt returns null and removes the
\* entry; an entry leaves the store only by such a read or by clear()
\* (no sweep on a clock advance or on any other call).
\* ------------------------------------------------------------------------
IsGetOf(k) == lastOp.op = "get" /\ lastOp.key = k

C6_LazyExpiry ==
  [][ /\ \A k \in DOMAIN cache :
           (now > cache[k].expiresAt /\ IsGetOf(k)')
             => (lastOp'.ret = Null /\ k \notin DOMAIN cache')
      /\ \A k \in DOMAIN cache \ DOMAIN cache' :
           \/ now > cache[k].expiresAt /\ IsGetOf(k)'
           \/ lastOp'.op = "clear" ]_vars

C6_Witness ==
  /\ lastOp.op = "get"
  /\ lastOp.ret = Null
  /\ history[lastOp.key] # NoSet
  /\ now > history[lastOp.key].expiresAt
  /\ lastOp.key \notin DOMAIN cache

\* ------------------------------------------------------------------------
\* C7: after set(k, v1, t1) and a later set(k, v2, t2) at time b, get(k)
\* returns v2 at every time up to b + t2 and null after it, whatever the
\* first set's expiry was.
\* ------------------------------------------------------------------------
C7_OverwriteResetsTTL ==
  (lastOp.op = "get" /\ history[lastOp.key] # NoSet /\ history[lastOp.key].over)
    => lastOp.ret = IF now <= history[lastOp.key].expiresAt
                    THEN history[lastOp.key].value
                    ELSE Null

C7_Witness ==
  /\ lastOp.op = "get"
  /\ history[lastOp.key] # NoSet
  /\ history[lastOp.key].over
  /\ history[lastOp.key].prev < now
  /\ now <= history[lastOp.key].expiresAt
  /\ lastOp.ret = history[lastOp.key].value

\* ------------------------------------------------------------------------
\* C8: whenever get(k) returns a value, it is the value of the most recent
\* set(k, ...), that set is not older than its ttl, and no clear() came
\* after it.
\* ------------------------------------------------------------------------
C8_HitOnlyWithinTTL ==
  (lastOp.op = "get" /\ lastOp.ret # Null)
    => /\ history[lastOp.key] # NoSet
       /\ lastOp.ret = history[lastOp.key].value
       /\ now <= history[lastOp.key].expiresAt

C8_Witness ==
  /\ lastOp.op = "get"
  /\ lastOp.ret # Null
  /\ ticks > 0
  /\ history[lastOp.key].expiresAt = now

\* the tuple the fingerprint is meant to identify
EffectiveInputs(w) ==
  << w.location_key, OrDefault(w.precision_level, STR_approximate),
     Range(w.selected_hazards), w.selected_system >>

KeyComputed(c) == calls[c].cacheKey # NoKey

C4_DistinctRequestsDistinctKeys ==
  \A c, d \in CallIds :
    (KeyComputed(c) /\ KeyComputed(d)
       /\ EffectiveInputs(calls[c].inputs) # EffectiveInputs(calls[d].inputs))
      => calls[c].cacheKey # calls[d].cacheKey

\* ------------------------------------------------------------------------
\* C9: a call with location_key missing, selected_hazards empty or
\* selected_system missing fails at once with an input error: no
\* fingerprint, no cache read or write, no dispatch, no validation, and
\* the cache is left as it was; the failed call does nothing afterwards.
\* ------------------------------------------------------------------------
FieldMissing(w) ==
  \/ w.location_key = Absent
  \/ Len(w.selected_hazards) = 0
  \/ w.selected_system = Absent

C9_InputErrorIsImmediate ==
  [][ \A c \in CallIds :
        /\ (calls[c].pc = "idle" /\ calls'[c].pc # "idle"
               /\ FieldMissing(calls'[c].inputs))
             => /\ calls'[c].pc = "failed"
                /\ calls'[c].error = "input"
                /\ calls'[c].cacheKey = NoKey
                /\ calls'[c].reads = 0 /\ calls'[c].writes = 0
                /\ calls'[c].dispatches = 0 /\ calls'[c].validations = 0
                /\ calls'[c].pending = {} /\ calls'[c].requestId = NoKey
                /\ cache' = cache
        /\ calls[c].error = "input" => calls'[c] = calls[c] ]_vars

C9_Witness ==
  \E c \in CallIds :
    /\ calls[c].error = "input"
    /\ Len(calls[c].inputs.selected_hazards) = 0
    /\ DOMAIN cache # {}

\* ------------------------------------------------------------------------
\* C10: a call that starts within the TTL window of an earlier call with
\* the same inputs, whose entry is still the last one written for that
\* key, returns that call's dashboard, without dispatch and without
\* validation.
\* ------------------------------------------------------------------------
C10_SecondCallHits ==
  \A c, d \in CallIds :
    (c # d /\ calls[c].writes = 1 /\ calls[d].pc # "idle"
       /\ calls[d].inputs = calls[c].inputs
       /\ calls[d].saw = c
       /\ calls[d].startedAt <= calls[c].storedAt + DefaultTTL)
      => /\ calls[d].pc \in {"lookup", "done"}
         /\ calls[d].cached = calls[c].dashboard
         /\ calls[d].pc = "done" => calls[d].result = calls[c].dashboard
         /\ calls[d].dispatches = 0
         /\ calls[d].validations = 0

C10_Witness ==
  \E c, d \in CallIds :
    /\ c # d
    /\ calls[c].pc = "done" /\ calls[c].writes = 1
    /\ calls[d].pc = "done"
    /\ calls[d].inputs = calls[c].inputs
    /\ calls[d].saw = c
    /\ calls[d].startedAt = calls[c].storedAt + DefaultTTL
    /\ calls[d].result = calls[c].result
    /\ calls[d].dispatches = 0

AllNodes(d) == { d.risk_chain.nodes[i] : i \in DOMAIN d.risk_chain.nodes }

\* ------------------------------------------------------------------------
\* C11: in mock mode a call with valid inputs that misses the cache
\* succeeds: once its three sub-generators are through, the call has not
\* failed, and the dashboard it stores and returns has at least one risk
\* node, every severity in [0,1], every drift direction one of the three
\* arrows and the baseline unit "°C".
\* ------------------------------------------------------------------------
C11_MockMissSucceeds ==
  \A c \in CallIds :
    (mode = "mock" /\ calls[c].dispatches = 1 /\ calls[c].pc # "dispatch")
      => /\ calls[c].pc \in {"stored", "done"}
         /\ calls[c].error = "none"
         /\ Len(calls[c].dashboard.risk_chain.nodes) >= 1
         /\ \A n \in AllNodes(calls[c].dashboard) :
              /\ n.severity >= 0 /\ n.severity <= 100
              /\ n.drift.direction \in {ARROW_up, ARROW_down, ARROW_flat}
         /\ calls[c].dashboard.baseline.unit = UNIT_degC

\* ------------------------------------------------------------------------
\* C12: every call that returns a dashboard, cache hits included, returns
\* one whose location key, hazard and system are those of its own inputs:
\* location.location_key = inputs.location_key, risk_chain.hazard =
\* inputs.selected_hazards[0], risk_chain.system = inputs.selected_system.
\* ------------------------------------------------------------------------
C12_ResultEchoesInputs ==
  \A c \in CallIds :
    calls[c].pc = "done"
      => /\ calls[c].result.location.location_key = calls[c].inputs.location_key
         /\ calls[c].result.risk_chain.hazard = calls[c].inputs.selected_hazards[1]
         /\ calls[c].result.risk_chain.system = calls[c].inputs.selected_system

\* ------------------------------------------------------------------------
\* C13: a call whose dispatched payload fails validateDashboard fails with
\* a contract error that carries every violation, in the validator's
\* order; it returns nothing, stores nothing, and stays failed.
\* ------------------------------------------------------------------------
C13_ValidationFailureIsHard ==
  [][ \A c \in CallIds :
        /\ (calls'[c].payload # Null /\ validateDashboard(calls'[c].payload) # <<>>)
             => /\ calls'[c].pc = "failed"
                /\ calls'[c].error = "contract"
                /\ calls'[c].errors = validateDashboard(calls'[c].payload)
                /\ calls'[c].result = Null
                /\ calls'[c].dashboard = Null
                /\ calls'[c].writes = 0
                /\ calls[c].payload = Null => cache' = cache
        /\ calls[c].error = "contract" => calls'[c] = calls[c] ]_vars

C13_Witness ==
  \E c \in CallIds :
    /\ calls[c].error = "contract"
    /\ Len(calls[c].errors) > 1
    /\ calls[c].errors[1] = <<"baseline", "unit">>
    /\ calls[c].errors = validateDashboard(calls[c].payload)
    /\ calls[c].cacheKey \notin DOMAIN cache

\* ------------------------------------------------------------------------
\* C14: every cache entry holds a value that passes validateDashboard; it
\* was written by a call that had missed the cache, validated that very
\* payload and did not fail.
\* ------------------------------------------------------------------------
C14_CacheHoldsValidatedOnly ==
  \A k \in DOMAIN cache :
    /\ validateDashboard(cache[k].value) = <<>>
    /\ k \in DOMAIN writer
    /\ LET c == writer[k]
       IN  /\ calls[c].cacheKey = k
           /\ calls[c].cached = Null
           /\ calls[c].validations = 1
           /\ calls[c].payload = cache[k].value
           /\ calls[c].error = "none"

C14_Witness ==
  \E c, d \in CallIds :
    /\ calls[c].error = "contract"
    /\ calls[c].cacheKey \notin DOMAIN cache
    /\ calls[d].writes = 1
    /\ calls[d].cacheKey \in DOMAIN cache
    /\ cache[calls[d].cacheKey].value = calls[d].payload

\* ------------------------------------------------------------------------
\* C15: a call that misses the cache and whose payload validates stores
\* the payload under its own fingerprint with expiry now + 3,600,000 ms,
\* changes no other cache key, and then returns that payload.
\* ------------------------------------------------------------------------
C15_MissStoresThenReturns ==
  [][ \A c \in CallIds :
        /\ (calls'[c].validations > calls[c].validations
               /\ validateDashboard(calls'[c].payload) = <<>>)
             => /\ calls[c].cached = Null
                /\ calls'[c].pc = "stored"
                /\ DOMAIN cache' = DOMAIN cache \cup {calls[c].cacheKey}
                /\ cache'[calls[c].cacheKey] =
                     [value |-> calls'[c].payload, expiresAt |-> now + 3600000]
                /\ \A x \in DOMAIN cache \ {calls[c].cacheKey} : cache'[x] = cache[x]
        /\ calls[c].pc = "stored"
             => \/ calls'[c] = calls[c]
                \/ /\ calls'[c].pc = "done"
                   /\ calls'[c].result = calls[c].payload
                   /\ cache' = cache ]_vars

C15_Witness ==
  \E c \in CallIds :
    /\ calls[c].pc = "done"
    /\ calls[c].cached = Null
    /\ calls[c].writes = 1
    /\ calls[c].result = calls[c].payload
    /\ calls[c].cacheKey \in DOMAIN cache
    /\ cache[calls[c].cacheKey].expiresAt = calls[c].storedAt + 3600000
    /\ calls[c].storedAt > 0

\* ------------------------------------------------------------------------
\* C16: a call dispatches at most once: not at all on an input error or a
\* cache hit, exactly once after a cache miss (one outbound request in
\* real mode); a dispatch failure ends the call with an error and the
\* call does nothing afterwards (no retry).
\* ------------------------------------------------------------------------
C16_AtMostOneDispatch ==
  [][ \A c \in CallIds :
        /\ calls'[c].dispatches \in {0, 1}
        /\ calls'[c].error = "input" => calls'[c].dispatches = 0
        /\ (calls'[c].pc = "done" /\ calls'[c].cached # Null)
             => calls'[c].dispatches = 0
        /\ (calls'[c].pc \in {"dispatch", "fetch", "stored"}
              \/ calls'[c].error \in {"dispatch", "contract"}
              \/ (calls'[c].pc = "done" /\ calls'[c].cached = Null))
             => /\ calls'[c].dispatches = 1
                /\ calls'[c].cached = Null
        /\ (mode = "real" /\ calls'[c].dispatches = 1) => calls'[c].requestId # NoKey
        /\ calls'[c].error = "dispatch"
             => /\ calls'[c].pc = "failed"
                /\ calls'[c].result = Null
                /\ calls'[c].writes = 0
        /\ calls[c].error = "dispatch" => calls'[c] = calls[c] ]_vars

C16_Witness ==
  \E c, d \in CallIds :
    /\ calls[c].error = "dispatch"
    /\ calls[c].errors = << <<"timeout">> >>
    /\ calls[c].dispatches = 1
    /\ calls[d].pc = "done"
    /\ calls[d].dispatches = 1

\* ------------------------------------------------------------------------
\* C17: in real mode the X-Request-ID header of a call's outbound request
\* is the fingerprint of the call's inputs: the key of its cache lookup
\* and of its cache write.
\* ------------------------------------------------------------------------
C17_RequestIdIsFingerprint ==
  \A c \in CallIds :
    /\ calls[c].requestId # NoKey
         => /\ mode = "real"
            /\ calls[c].requestId = calls[c].cacheKey
            /\ calls[c].requestId = generateCacheKey(calls[c].inputs)
            /\ calls[c].requestId = calls[c].log[1][3]
    /\ (mode = "real" /\ calls[c].dispatches = 1) => calls[c].requestId # NoKey
    /\ \A k \in DOMAIN writer :
         (mode = "real" /\ writer[k] = c) => calls[c].requestId = k

C17_Witness ==
  \E c \in CallIds :
    /\ mode = "real"
    /\ calls[c].requestId # NoKey
    /\ calls[c].writes = 1
    /\ calls[c].requestId \in DOMAIN cache
    /\ writer[calls[c].requestId] = c

C19_LastWriterWins ==
  \A k \in DOMAIN cache :
    /\ k \in DOMAIN writer
    /\ \A c \in CallIds :
         (calls[c].writes = 1 /\ calls[c].cacheKey = k)
           => calls[c].storedAt <= calls[writer[k]].storedAt
    /\ cache[k] = [value |-> calls[writer[k]].payload,
                   expiresAt |-> calls[writer[k]].storedAt + 3600000]

C19_Witness ==
  \E c, d \in CallIds :
    /\ c # d
    /\ calls[c].cacheKey = calls[d].cacheKey
    /\ calls[c].cached = Null /\ calls[d].cached = Null
    /\ calls[c].dispatches = 1 /\ calls[d].dispatches = 1
    /\ calls[c].writes = 1 /\ calls[d].writes = 1
    /\ calls[d].startedAt < calls[c].storedAt
    /\ calls[c].storedAt < calls[d].storedAt
    /\ calls[c].cacheKey \in DOMAIN cache
    /\ cache[calls[c].cacheKey].value = calls[d].payload
    /\ cache[calls[c].cacheKey].value # calls[c].payload
    /\ cache[calls[c].cacheKey].expiresAt = calls[d].storedAt + 3600000

\* ------------------------------------------------------------------------
\* C20: the handler answers every POST whose body lacks location_key, has
\* no or an empty selected_hazards, or lacks selected_system with status
\* 400, and does not call getUnifiedDashboard for it.
\* ------------------------------------------------------------------------
C20_MissingFieldIs400 ==
  \A c \in CallIds :
    (calls[c].method = "POST" /\ FieldMissing(calls[c].body))
      => /\ calls[c].status = 400
         /\ calls[c].pc = "responded"
         /\ calls[c].error = "none"
         /\ calls[c].reads = 0

\* ------------------------------------------------------------------------
\* Claims about the contract validator
\* ------------------------------------------------------------------------
ErrorPaths == { verdict.errors[i] : i \in 1..Len(verdict.errors) }

\* C23: validateDashboard always returns a result object: either
\* {success: true, data} for a value that breaks no rule, or {success: false,
\* errors} with a non-empty list that holds one entry per broken rule.
C23_AlwaysStructuredResult ==
  IF verdict.success
  THEN /\ verdict = [success |-> TRUE, data |-> doc]
       /\ broken = {}
  ELSE /\ DOMAIN verdict = {"success", "errors"}
       /\ Len(verdict.errors) >= 1
       /\ Len(verdict.errors) = Cardinality(broken)
       /\ ErrorPaths = broken

C23_Witness ==
  /\ mutations = 2
  /\ ~verdict.success
  /\ verdict.errors = << NodePath(1, <<"severity">>), ScorePath >>

\* C24: once a constrained field of a valid dashboard has been put outside
\* its rule, validateDashboard fails and one of its errors has the path of
\* that field.
C24_ErrorNamesTheField ==
  \A p \in broken :
    /\ verdict.success = FALSE
    /\ \E i \in 1..Len(verdict.errors) : verdict.errors[i] = p

C24_Witness ==
  /\ mutations = 1
  /\ broken = {ScorePath}
  /\ doc.risk_chain.spillover.score = 120
  /\ verdict = [success |-> FALSE, errors |-> <<ScorePath>>]

\* ------------------------------------------------------------------------
\* Claims about the HTTP handler's responses
\* ------------------------------------------------------------------------
\* C21: the handler sends one response per request that reaches the
\* orchestrator: 200 with the orchestrator's result when the call returned,
\* 500 with {error: internal_server_error, message: the error's message}
\* when it threw (input error, dispatch failure or contract violation); the
\* response is due as soon as the call has ended and nothing follows it.
C21_OneResponsePerRequest ==
  \A c \in CallIds :
    /\ calls[c].responses <= 1
    /\ calls[c].responses = 1 <=> calls[c].status # 0
    /\ calls[c].status = 200
         => /\ calls[c].pc = "done"
            /\ calls[c].reply = calls[c].result
            /\ calls[c].reply # Null
    /\ calls[c].status = 500
         => /\ calls[c].pc = "failed"
            /\ calls[c].error \in {"input", "dispatch", "contract"}
            /\ calls[c].reply = [error |-> "internal_server_error",
                                 message |-> ErrorMessage(calls[c])]
    /\ (calls[c].pc \in {"done", "failed"} /\ calls[c].status = 0)
         => ENABLED RespondTo(c)

C21_Witness ==
  \E c, d \in CallIds :
    /\ calls[c].status = 200
    /\ calls[c].reply = calls[c].result
    /\ calls[d].status = 500
    /\ calls[d].error = "contract"
    /\ calls[d].reply.message = [kind |-> "contract", details |-> << ScorePath >>]

\* C22: a request whose method is not POST is answered 405 in the step
\* that receives it, whatever its body; the step leaves the cache alone and
\* the request never reaches the orchestrator.
C22_NonPostIs405 ==
  [][ \A c \in CallIds :
        /\ (calls[c].pc = "idle" /\ calls'[c].method \notin {"none", "POST"})
             => /\ calls'[c].status = 405
                /\ calls'[c].responses = 1
                /\ calls'[c].pc = "responded"
                /\ calls'[c].cacheKey = NoKey
                /\ calls'[c].reads = 0
                /\ calls'[c].dispatches = 0
                /\ calls'[c].log = <<>>
                /\ cache' = cache
                /\ writer' = writer
        /\ calls[c].status = 405 => calls'[c] = calls[c] ]_vars

C22_Witness ==
  \E c, d \in CallIds :
    /\ calls[c].method = "GET" /\ calls[c].status = 405
    /\ ~FieldMissing(calls[c].body)
    /\ calls[d].method = "GET" /\ calls[d].status = 405
    /\ FieldMissing(calls[d].body)
    /\ cache = [k \in {} |-> 0]

\* ------------------------------------------------------------------------
\* Claims about the orchestrator's log and its effect on the cache
\* ------------------------------------------------------------------------
\* the events that end a call: returned (from the cache or after
\* validation) or thrown
CompletionEvents == {"Cache hit", "Dashboard validated successfully"}
FailureEvents ==
  {"Missing required inputs", "API request failed", "API call failed",
   "Dashboard validation failed"}

TerminalEvents(c) ==
  { i \in 1..Len(calls[c].log) :
      calls[c].log[i][2] \in CompletionEvents \cup FailureEvents }

\* C28: the log of every call that has ended starts with a request event
\* that carries the fingerprint, the inputs and the mode, and holds exactly
\* one terminal event, its last, with the same fingerprint: a completion
\* event with timestamp, dataset versions and node count, or a failure event
\* with inputs and error detail.
C28_RequestThenOneTerminalEvent ==
  \A c \in CallIds :
    calls[c].pc \in {"done", "failed"}
      => LET log == calls[c].log
             last == log[Len(log)]
         IN  /\ Len(log) >= 2
             /\ log[1][2] = "Dashboard request"
             /\ log[1][3] = generateCacheKey(calls[c].inputs)
             /\ {"cacheKey", "inputs", "mode"} \subseteq Payload(log[1][2])
             /\ TerminalEvents(c) = {Len(log)}
             /\ last[3] = log[1][3]
             /\ calls[c].pc = "done"
                  => /\ last[2] \in CompletionEvents
                     /\ {"cacheKey", "dataset_versions", "node_count"}
                          \subseteq Payload(last[2])
             /\ calls[c].pc = "failed"
                  => /\ last[2] \in FailureEvents
                     /\ {"cacheKey", "inputs"} \subseteq Payload(last[2])

\* C30: a call that ends in an error has written nothing, and no step of a
\* call that has written nothing changes the cache, except that its lookup
\* removes the entry of its own fingerprint when that entry has expired;
\* after the error the call takes no further step.
C30_FailedCallLeavesCache ==
  [][ \A c \in CallIds :
        /\ calls'[c].pc = "failed" => calls'[c].writes = 0
        /\ calls[c].pc = "failed" => calls'[c] = calls[c]
        /\ (calls'[c] # calls[c] /\ calls'[c].writes = 0)
             => \/ cache' = cache
                \/ LET k == calls'[c].cacheKey
                   IN  /\ calls[c].pc = "idle"
                       /\ k \in DOMAIN cache
                       /\ now > cache[k].expiresAt
                       /\ cache' = [x \in DOMAIN cache \ {k} |-> cache[x]] ]_vars

C30_Witness ==
  \E c, d \in CallIds :
    /\ c # d
    /\ calls[d].writes = 1
    /\ calls[d].cacheKey = calls[c].cacheKey
    /\ calls[c].pc = "failed"
    /\ calls[c].error \in {"dispatch", "contract"}
    /\ calls[c].startedAt > calls[d].storedAt + DefaultTTL
    /\ calls[c].cacheKey \notin DOMAIN cache

\* ------------------------------------------------------------------------
\* Claims about the wizard's invalidation of a displayed dashboard
\* ------------------------------------------------------------------------
\* the key of the inputs differs before and after the step
KeyChanges == generateDashboardKey(wizardState') # generateDashboardKey(wizardState)

C26_SameKeyKeepsResult ==
  /\ [](\A c \in CallIds :
          (calls[c].pc = "done"
             /\ EffectiveInputs(calls[c].inputs) = EffectiveInputs(wizardState))
            => generateDashboardKey(calls[c].inputs) = generateDashboardKey(wizardState))
  /\ [][ /\ (/\ dashboardData # Null
             /\ dashboardRequestKey # Null
             /\ flight.call = 0
             /\ generateDashboardKey(wizardState') = dashboardRequestKey)
              => /\ dashboardData' = dashboardData
                 /\ dashboardRequestKey' = dashboardRequestKey
         /\ (/\ ClickNext
             /\ currentStep = 3
             /\ dashboardData # Null
             /\ generateDashboardKey(wizardState) = dashboardRequestKey)
              => /\ currentStep' = 4
                 /\ calls' = calls
                 /\ cache' = cache
                 /\ isLoadingDashboard' = FALSE ]_vars

C26_Witness ==
  /\ wizOp = [op |-> "next", at |-> 3]
  /\ currentStep = 4
  /\ dashboardData # Null
  /\ dashboardRequestKey = generateDashboardKey(wizardState)
  /\ calls[2].pc = "idle"

\* C27: while no result is held a change of the inputs changes neither the
\* recorded key nor the step; while a call is in flight nothing but its
\* completion changes the result, the recorded key or the step; and an
\* input change made during the flight is acted on once the call has
\* completed: no result stays displayed with a recorded key that is not the
\* key of the inputs.
C27_NoTransitionInFlight ==
  /\ [][ /\ (dashboardData = Null /\ KeyChanges /\ ~HandleRestart
               /\ ~HandleNextResumes)
              => /\ dashboardData' = Null
                 /\ dashboardRequestKey' = dashboardRequestKey
                 /\ currentStep' = currentStep
         /\ (isLoadingDashboard /\ ~HandleNextResumes)
              => /\ dashboardData' = dashboardData
                 /\ dashboardRequestKey' = dashboardRequestKey
                 /\ currentStep' = currentStep ]_vars
  /\ []((~isLoadingDashboard /\ dashboardData # Null)
          => dashboardRequestKey = generateDashboardKey(wizardState))

\* C29: the step is 4, 5 or 6 only while a result is held, the banner for
\* a missing result is never rendered, and on these steps canProceed is
\* false without a result.
C29_PreviewStepsNeedData ==
  /\ currentStep >= 4 => dashboardData # Null
  /\ ~StaleBannerShown
  /\ \A step \in 4..6 : ~canProceed(step, wizardState, Null)

C29_Witness ==
  /\ wizOp.op = "located"
  /\ wizOp.at >= 4
  /\ currentStep = 3
  /\ dashboardData = Null

\* ------------------------------------------------------------------------
\* C31: in real mode a non-success response status makes the call fail
\* with an error that carries the response status and the response body,
\* and expiry of the timeout is a dispatch failure handled the same way:
\* an error to the caller, no cache write, no second dispatch.
\* ------------------------------------------------------------------------
Carries(call, text) ==
  \E i \in 1..Len(call.errors[1]) : call.errors[1][i] = text

C31_NotOkCarriesStatusAndBody ==
  \A c \in CallIds :
    (calls[c].pc = "failed" /\ calls[c].error = "dispatch")
      => /\ calls[c].result = Null
         /\ calls[c].writes = 0
         /\ calls[c].dispatches = 1
         /\ calls[c].cacheKey \in DOMAIN writer => writer[calls[c].cacheKey] # c
         /\ calls[c].errors # <<>>
         /\ calls[c].response # Null
              => /\ Carries(calls[c], ToString(calls[c].response.status))
                 /\ Carries(calls[c], calls[c].response.body)

C33_OtherKeysUntouched ==
  /\ [](\A k \in SampleKeys :
          (history[k] # NoSet /\ now <= history[k].expiresAt)
            => /\ k \in DOMAIN cache
               /\ CacheGetValue(cache, k, now) = history[k].value)
  /\ [][ \A k \in SampleKeys :
          (lastOp'.op \in {"get", "set"} /\ lastOp'.key # k)
            => /\ (k \in DOMAIN cache') = (k \in DOMAIN cache)
               /\ k \in DOMAIN cache => cache'[k] = cache[k]
               /\ CacheGetValue(cache', k, now') = CacheGetValue(cache, k, now)
               /\ history'[k] = history[k] ]_vars

C33_Witness ==
  \E k \in SampleKeys :
    /\ history[k] # NoSet
    /\ ticks > 0
    /\ now <= history[k].expiresAt
    /\ lastOp.op = "set"
    /\ lastOp.key # k
    /\ history[lastOp.key].over
    /\ Cardinality(DOMAIN cache) = Cardinality(SampleKeys)
    /\ CacheGetValue(cache, k, now) = history[k].value

\* ------------------------------------------------------------------------
\* C34: whenever the wizard holds a dashboard result and no orchestration
\* call is in flight, the recorded dashboardRequestKey is not null and is
\* generateDashboardKey of the current wizard inputs.
\* ------------------------------------------------------------------------
C34_HeldResultMatchesInputs ==
  (dashboardData # Null /\ flight.call = 0 /\ ~isLoadingDashboard)
    => /\ dashboardRequestKey # Null
       /\ dashboardRequestKey = generateDashboardKey(wizardState)

\* ------------------------------------------------------------------------
\* C35: the inputs the wizard passes to getUnifiedDashboard always have
\* location_key set, selected_hazards non-empty and selected_system set.
\* ------------------------------------------------------------------------
C35_WizardPassesCompleteInputs ==
  \A c \in CallIds :
    calls[c].pc # "idle"
      => /\ calls[c].inputs.location_key # Absent
         /\ Len(calls[c].inputs.selected_hazards) > 0
         /\ calls[c].inputs.selected_system # Absent

\* ------------------------------------------------------------------------
\* C36: the completion of a location resolution changes only location_key
\* and normalized_location of the wizard inputs; the hazards, the system
\* and the precision selected since the resolution started are kept.
\* ------------------------------------------------------------------------
C36_ResolveKeepsSelections ==
  [][ ResolveLands
        => /\ wizardState'.selected_hazards = wizardState.selected_hazards
           /\ wizardState'.selected_system = wizardState.selected_system
           /\ wizardState'.precision_level = wizardState.precision_level ]_vars

\* ------------------------------------------------------------------------
\* C37: Restart puts the wizard back in its initial state: step 1, empty
\* inputs, no dashboard result, no error and no recorded request key; the
\* recorded key is non-null only while a dashboard result is held.
\* ------------------------------------------------------------------------
C37_RestartResetsEverything ==
  /\ [](dashboardRequestKey # Null => dashboardData # Null)
  /\ [][ HandleRestart
          => /\ currentStep' = 1
             /\ wizardState'.location_key = Absent
             /\ wizardState'.normalized_location = Missing
             /\ wizardState'.selected_hazards = <<>>
             /\ wizardState'.selected_system = Absent
             /\ wizardState'.precision_level = Absent
             /\ dashboardData' = Null
             /\ dashboardError' = Null
             /\ ~isLoadingDashboard'
             /\ dashboardRequestKey' = Null ]_vars

\* ------------------------------------------------------------------------
\* C38: when the orchestration call started from step 3 fails, the wizard
\* stays on step 3, keeps the held result and the recorded key, records
\* the error message and clears the loading flag; a click on Retry then
\* starts exactly one new getUnifiedDashboard call with the current inputs.
\* ------------------------------------------------------------------------
RetryShown == dashboardError # Null /\ ~isLoadingDashboard

Started(c) == calls[c].pc = "idle" /\ calls'[c].pc # "idle"

C38_FailureKeepsStepRetryCallsOnce ==
  /\ [][ (HandleNextResumes /\ calls[flight.call].pc = "failed")
          => /\ currentStep = 3
             /\ currentStep' = 3
             /\ dashboardData' = dashboardData
             /\ dashboardRequestKey' = dashboardRequestKey
             /\ dashboardError' = ErrorMessage(calls[flight.call])
             /\ ~isLoadingDashboard'
             /\ flight' = NoFlight ]_vars
  /\ []( RetryShown
           => /\ currentStep = 3
              /\ canProceed(3, wizardState, dashboardData)
              /\ \/ dashboardData = Null
                 \/ generateDashboardKey(wizardState) # dashboardRequestKey )
  /\ [][ ClickRetry
          => /\ Cardinality({c \in CallIds : Started(c)}) = 1
             /\ \A c \in CallIds :
                  Started(c) => /\ calls'[c].inputs = wizardState
                                /\ flight'.call = c
                                /\ isLoadingDashboard'
             /\ \A c \in CallIds : ~Started(c) => calls'[c] = calls[c] ]_vars

\* ------------------------------------------------------------------------
\* C39: every getUnifiedDashboard call that has started eventually ends
\* with a result or with an error, and the loading flag of the wizard, set
\* when a call starts, is eventually cleared.
\* ------------------------------------------------------------------------
C39_CallsEndLoadingClears ==
  /\ \A c \in CallIds :
       (calls[c].pc \in {"lookup", "dispatch", "fetch", "stored"})
         ~> (calls[c].pc \in {"done", "failed"})
  /\ isLoadingDashboard ~> ~isLoadingDashboard

C39_Witness ==
  \E c \in CallIds :
    /\ calls[c].pc = "failed"
    /\ calls[c].errors = << <<"timeout">> >>
    /\ now >= calls[c].dispatchedAt + ApiTimeout
    /\ ~isLoadingDashboard
    /\ flight = NoFlight
    /\ dashboardError = ErrorMessage(calls[c])

====
